---- MODULE Spec2Model ----
(***************************************************************************)
(* The Book and Shelf entities of the-librarian-game.                      *)
(*                                                                         *)
(* Numbers.  The program computes in IEEE doubles; the model computes in   *)
(* exact integers on fixed grids:                                          *)
(*   - a position is an integer number of 1/PosScale pixels (PosScale = 30 *)
(*     makes the slot grid of Shelf.renderBooks, thirds of 64 pixels, and  *)
(*     the moves velocity * deltaTime exact);                              *)
(*   - deltaTime is an integer number of 1/TimeScale seconds (fifths);     *)
(*   - a velocity is an integer number of pixels per second; the products  *)
(*     by 0.9 and 0.5 are rounded toward zero to the grid (the program     *)
(*     rounds them to the nearest double);                                 *)
(*   - rotationSpeed is an integer, rotation an integer number of          *)
(*     1/TimeScale units; the product by 0.95 is rounded toward zero;      *)
(*   - glowIntensity is an integer number of tenths.                       *)
(* Math.random() is a nondeterministic choice from a sample of [0, 1).     *)
(* Identities: books, shelves and holders are positive integers, Null = 0. *)
(* The canvases the render methods draw on and cache are not modelled.     *)
(*                                                                         *)
(* The worlds share the actions: the slot world (Spec) for the calls of    *)
(* Shelf, the book world (BookSpec) for every call on one book, the update *)
(* world (UpdateSpec) for a book that is only updated, under the fairness  *)
(* of the frame loop, and further down the script world (ScriptSpec), the  *)
(* frame world (FrameSpec), the pulse world (PulseSpec) and the glow world *)
(* (GlowSpec).                                                             *)
(***************************************************************************)
EXTENDS Integers, FiniteSets, Sequences, TLC

VARIABLES
    book,          \* book id  -> the fields of that Book
    shelf,         \* shelf id -> the fields of that Shelf
    call,          \* the last call made on an entity and what it returned
    carriedBooks,  \* state.player.carriedBooks: the books the player carries
    trace          \* the calls of a scripted run and what they returned

vars == <<book, shelf, call, carriedBooks, trace>>

Null == 0

\* ---------------------------------------------------------------- bounds
Capacity   == 2   \* slots of the shelf of the slot world
MaxSparkle == 2   \* Book.update is not called once sparkleTimer would pass this

\* ------------------------------------------------------ program constants
BookWidth      == 16
BookHeight     == 20
ShelfWidth     == 64
ShelfHeight    == 96
SlotsPerRow    == 3
SlotTop        == 24
SlotRowHeight  == 24
StopSpeed      == 5

\* ----------------------------------------------------------------- grids
PosScale  == 3 * 10
TimeScale == 5 * 1
Px(n)     == n * PosScale

Abs(n) == IF n < 0 THEN -n ELSE n

\* v * num / den, rounded toward zero
Scale(v, num, den) ==
    IF v >= 0 THEN (v * num) \div den ELSE -(((-v) * num) \div den)

\* (Math.random() - 0.5) * span for Math.random() = r / 20
RandomSpan(r, span) == Scale((r - 10) * span, 1, 20)

\* the sample of Math.random(), in twentieths: 0 and 19/20
RandomSample == {0, 19}

\* ================================================================== Book

\* new Book(game, x, y, color); vx and vy start at 0 in the Entity base
NewBook(x0, y0, c) ==
    [ color |-> c, isHeld |-> FALSE, isShelved |-> FALSE,
      holder |-> Null, shelf |-> Null,
      x |-> x0, y |-> y0, vx |-> 0, vy |-> 0,
      rotation |-> 0, rotationSpeed |-> 0, sparkleTimer |-> 0,
      glowIntensity |-> 0, glowDirection |-> 1 ]

pickup(bk, h) ==
    [bk EXCEPT !.isHeld = TRUE, !.holder = h, !.vx = 0, !.vy = 0,
               !.rotation = 0, !.rotationSpeed = 0]

NoThrow == <<>>

\* a slip: the holder is kept
drop_KeepsHolder(bk, x0, y0, throwVelocity, r) ==
    LET d == [bk EXCEPT !.isHeld = FALSE, !.x = x0, !.y = y0]
    IN  IF throwVelocity # NoThrow
        THEN [d EXCEPT !.vx = throwVelocity[1], !.vy = throwVelocity[2],
                       !.rotationSpeed = RandomSpan(r, 10)]
        ELSE d

\* a slip: the spin is drawn from twice the range
drop_WideSpin(bk, x0, y0, throwVelocity, r) ==
    LET d == [bk EXCEPT !.isHeld = FALSE, !.holder = Null, !.x = x0, !.y = y0]
    IN  IF throwVelocity # NoThrow
        THEN [d EXCEPT !.vx = throwVelocity[1], !.vy = throwVelocity[2],
                       !.rotationSpeed = RandomSpan(r, 20)]
        ELSE d

\* throwVelocity is NoThrow or <<x, y>>; r is the Math.random() of the throw
drop(bk, x0, y0, throwVelocity, r) ==
    LET d == [bk EXCEPT !.isHeld = FALSE, !.holder = Null, !.x = x0, !.y = y0]
    IN  IF throwVelocity # NoThrow
        THEN [d EXCEPT !.vx = throwVelocity[1], !.vy = throwVelocity[2],
                       !.rotationSpeed = RandomSpan(r, 10)]
        ELSE d

shelve(bk, s) ==
    [bk EXCEPT !.isShelved = TRUE, !.isHeld = FALSE, !.holder = Null,
               !.shelf = s, !.vx = 0, !.vy = 0,
               !.rotation = 0, !.rotationSpeed = 0]

\* a slip: the book is also taken out of the holder's hands
unshelve_Releases(bk) ==
    [bk EXCEPT !.isShelved = FALSE, !.shelf = Null,
               !.isHeld = FALSE, !.holder = Null]

unshelve(bk) ==
    [bk EXCEPT !.isShelved = FALSE, !.shelf = Null]

\* the overlap test of Book.update: the book's box at (bx, by) against sh's box
Overlaps(bx, by, sh) ==
    ~ (   bx + Px(BookWidth) < sh.x
       \/ bx > sh.x + Px(ShelfWidth)
       \/ by + Px(BookHeight) < sh.y
       \/ by > sh.y + Px(ShelfHeight) )

\* a slip: a friction factor above 1
Tentative_Speeds(bk, deltaTime) ==
    LET fx == Scale(bk.vx, 11, 10)
        fy == Scale(bk.vy, 11, 10)
    IN  [ vx |-> fx, vy |-> fy,
          x |-> bk.x + fx * deltaTime * (PosScale \div TimeScale),
          y |-> bk.y + fy * deltaTime * (PosScale \div TimeScale) ]

\* the tentative position of Book.update: friction, then the move
Tentative(bk, deltaTime) ==
    LET fx == Scale(bk.vx, 9, 10)
        fy == Scale(bk.vy, 9, 10)
    IN  [ vx |-> fx, vy |-> fy,
          x |-> bk.x + fx * deltaTime * (PosScale \div TimeScale),
          y |-> bk.y + fy * deltaTime * (PosScale \div TimeScale) ]

\* the shelves loop of Book.update: does the tentative move hit a shelf?
Collides(bk, deltaTime, shelves) ==
    /\ ~ bk.isShelved
    /\ \E s \in DOMAIN shelves :
         Overlaps(Tentative(bk, deltaTime).x, Tentative(bk, deltaTime).y, shelves[s])

\* a slip: the pulse turns at the lower bound without being held to it
GlowStep_NoFloor(bk, deltaTime) ==
    LET g == bk.glowIntensity + bk.glowDirection * deltaTime * 2 * (10 \div TimeScale)
    IN  IF g >= 10 THEN [glowIntensity |-> 10, glowDirection |-> -1]
        ELSE IF g <= 3 THEN [glowIntensity |-> g, glowDirection |-> 1]
        ELSE [glowIntensity |-> g, glowDirection |-> bk.glowDirection]

\* the glow pulse of Book.update, in tenths
GlowStep(bk, deltaTime) ==
    LET g == bk.glowIntensity + bk.glowDirection * deltaTime * 2 * (10 \div TimeScale)
    IN  IF g >= 10 THEN [glowIntensity |-> 10, glowDirection |-> -1]
        ELSE IF g <= 3 THEN [glowIntensity |-> 3, glowDirection |-> 1]
        ELSE [glowIntensity |-> g, glowDirection |-> bk.glowDirection]

\* a slip: the stop rule is left out
Physics_NeverStops(bk, deltaTime, shelves, rx, ry) ==
    LET t   == Tentative(bk, deltaTime)
        hit == Collides(bk, deltaTime, shelves)
        glow == GlowStep(bk, deltaTime)
    IN  [bk EXCEPT
           !.x = IF hit THEN bk.x ELSE t.x,
           !.y = IF hit THEN bk.y ELSE t.y,
           !.vx = IF hit THEN Scale(-t.vx, 1, 2) + RandomSpan(rx, 20) ELSE t.vx,
           !.vy = IF hit THEN Scale(-t.vy, 1, 2) + RandomSpan(ry, 20) ELSE t.vy,
           !.rotation = bk.rotation + bk.rotationSpeed * deltaTime,
           !.rotationSpeed = Scale(bk.rotationSpeed, 95, 100),
           !.sparkleTimer = bk.sparkleTimer + deltaTime,
           !.glowIntensity = glow.glowIntensity,
           !.glowDirection = glow.glowDirection]

\* Book.update past the isHeld test; rx and ry are the two Math.random() of
\* a collision
Physics(bk, deltaTime, shelves, rx, ry) ==
    LET t   == Tentative(bk, deltaTime)
        hit == Collides(bk, deltaTime, shelves)
        nx  == IF hit THEN bk.x ELSE t.x
        ny  == IF hit THEN bk.y ELSE t.y
        wx  == IF hit THEN Scale(-t.vx, 1, 2) + RandomSpan(rx, 20) ELSE t.vx
        wy  == IF hit THEN Scale(-t.vy, 1, 2) + RandomSpan(ry, 20) ELSE t.vy
        stop == Abs(wx) < StopSpeed /\ Abs(wy) < StopSpeed
        glow == GlowStep(bk, deltaTime)
    IN  [bk EXCEPT
           !.x = nx, !.y = ny,
           !.vx = IF stop THEN 0 ELSE wx,
           !.vy = IF stop THEN 0 ELSE wy,
           !.rotation = bk.rotation + bk.rotationSpeed * deltaTime,
           !.rotationSpeed = Scale(bk.rotationSpeed, 95, 100),
           !.sparkleTimer = bk.sparkleTimer + deltaTime,
           !.glowIntensity = glow.glowIntensity,
           !.glowDirection = glow.glowDirection]

\* a slip: held books are not skipped
update_NoHeldSkip(bk, deltaTime, shelves, rx, ry) ==
    Physics(bk, deltaTime, shelves, rx, ry)

\* Book.update(deltaTime)
update(bk, deltaTime, shelves, rx, ry) ==
    IF bk.isHeld THEN bk ELSE Physics(bk, deltaTime, shelves, rx, ry)

\* ================================================================= Shelf

\* new Shelf(game, x, y, color, capacity); slots are indexed from 0
NewShelf(x0, y0, c, cap) ==
    [ color |-> c, capacity |-> cap, x |-> x0, y |-> y0,
      books |-> [i \in 0 .. cap - 1 |-> Null],
      emptySlotGlow |-> 0, emptySlotGlowDirection |-> 1 ]

\* this.books.filter(book => book !== null).length
BookCount(sh) == Cardinality({i \in DOMAIN sh.books : sh.books[i] # Null})

\* a slip: <= for <
hasEmptySlots_OrEqual(sh) == BookCount(sh) <= sh.capacity

hasEmptySlots(sh) == BookCount(sh) < sh.capacity

getEmptySlotCount(sh) == sh.capacity - BookCount(sh)

\* the while loop of addBook, from slotIndex on
RECURSIVE ScanSlot(_, _)
ScanSlot(sh, slotIndex) ==
    IF slotIndex < sh.capacity /\ sh.books[slotIndex] # Null
    THEN ScanSlot(sh, slotIndex + 1)
    ELSE slotIndex

\* a slip: the color of the book is not compared
addBook_AnyColor(shelves, books, s, b) ==
    LET sh   == shelves[s]
        fail == [ret |-> FALSE, shelf |-> shelves, book |-> books]
    IN  IF ~ hasEmptySlots(sh) THEN fail
        ELSE LET slotIndex == ScanSlot(sh, 0)
             IN  IF slotIndex < sh.capacity
                 THEN [ ret   |-> TRUE,
                        shelf |-> [shelves EXCEPT ![s].books[slotIndex] = b],
                        book  |-> [books EXCEPT ![b] = shelve(@, s)] ]
                 ELSE fail

\* a slip: the scan runs from the last slot down
addBook_LastSlot(shelves, books, s, b) ==
    LET sh   == shelves[s]
        fail == [ret |-> FALSE, shelf |-> shelves, book |-> books]
    IN  IF ~ hasEmptySlots(sh) \/ books[b].color # sh.color THEN fail
        ELSE LET empty == {i \in DOMAIN sh.books : sh.books[i] = Null}
                 slotIndex == CHOOSE i \in empty : \A j \in empty : j <= i
             IN  [ ret   |-> TRUE,
                   shelf |-> [shelves EXCEPT ![s].books[slotIndex] = b],
                   book  |-> [books EXCEPT ![b] = shelve(@, s)] ]

\* shelf s .addBook(book b): the value returned and the entities after it
addBook(shelves, books, s, b) ==
    LET sh   == shelves[s]
        fail == [ret |-> FALSE, shelf |-> shelves, book |-> books]
    IN  IF ~ hasEmptySlots(sh) \/ books[b].color # sh.color THEN fail
        ELSE LET slotIndex == ScanSlot(sh, 0)
             IN  IF slotIndex < sh.capacity
                 THEN [ ret   |-> TRUE,
                        shelf |-> [shelves EXCEPT ![s].books[slotIndex] = b],
                        book  |-> [books EXCEPT ![b] = shelve(@, s)] ]
                 ELSE fail

\* a slip: the removed book is not told it left the shelf
removeBook_NoUnshelve(shelves, books, s, index) ==
    LET sh == shelves[s]
    IN  IF /\ index >= 0
           /\ index < Cardinality(DOMAIN sh.books)
           /\ sh.books[index] # Null
        THEN [ ret   |-> sh.books[index],
               shelf |-> [shelves EXCEPT ![s].books[index] = Null],
               book  |-> books ]
        ELSE [ret |-> Null, shelf |-> shelves, book |-> books]

\* a slip: the slot keeps the book it gave away
removeBook_KeepsSlot(shelves, books, s, index) ==
    LET sh == shelves[s]
    IN  IF /\ index >= 0
           /\ index < Cardinality(DOMAIN sh.books)
           /\ sh.books[index] # Null
        THEN [ ret   |-> sh.books[index],
               shelf |-> shelves,
               book  |-> [books EXCEPT ![sh.books[index]] = unshelve(@)] ]
        ELSE [ret |-> Null, shelf |-> shelves, book |-> books]

\* shelf s .removeBook(index): the book returned (or Null) and the entities after
removeBook(shelves, books, s, index) ==
    LET sh == shelves[s]
    IN  IF /\ index >= 0
           /\ index < Cardinality(DOMAIN sh.books)
           /\ sh.books[index] # Null
        THEN [ ret   |-> sh.books[index],
               shelf |-> [shelves EXCEPT ![s].books[index] = Null],
               book  |-> [books EXCEPT ![sh.books[index]] = unshelve(@)] ]
        ELSE [ret |-> Null, shelf |-> shelves, book |-> books]

\* the for loop of removeRandomBook: the occupied indices from i on, ascending
RECURSIVE BookIndices(_, _)
BookIndices(sh, i) ==
    IF i >= Cardinality(DOMAIN sh.books) THEN <<>>
    ELSE IF sh.books[i] # Null
         THEN <<i>> \o BookIndices(sh, i + 1)
         ELSE BookIndices(sh, i + 1)

\* a slip: the random index ranges over all the slots, not the occupied ones
removeRandomBook_AnySlot(shelves, books, s, r) ==
    LET bookIndices == BookIndices(shelves[s], 0)
    IN  IF Len(bookIndices) = 0
        THEN [ret |-> Null, shelf |-> shelves, book |-> books]
        ELSE removeBook(shelves, books, s, (r * shelves[s].capacity) \div 20)

\* shelf s .removeRandomBook() when Math.random() = r / 20
removeRandomBook(shelves, books, s, r) ==
    LET bookIndices == BookIndices(shelves[s], 0)
    IN  IF Len(bookIndices) = 0
        THEN [ret |-> Null, shelf |-> shelves, book |-> books]
        ELSE removeBook(shelves, books, s,
                        bookIndices[((r * Len(bookIndices)) \div 20) + 1])

\* where renderBooks draws the book of slot index
SlotWidth    == Px(ShelfWidth) \div SlotsPerRow
SlotX(sh, index) ==
    sh.x + (index % SlotsPerRow) * SlotWidth + (SlotWidth - Px(BookWidth)) \div 2
SlotY(sh, index) ==
    sh.y + Px(SlotTop) + (index \div SlotsPerRow) * Px(SlotRowHeight)

\* the forEach of renderBooks, from slot index on
RECURSIVE RenderFrom(_, _, _, _)
RenderFrom(shelves, books, s, index) ==
    IF index >= Cardinality(DOMAIN shelves[s].books)
    THEN [shelf |-> shelves, book |-> books]
    ELSE LET b == shelves[s].books[index]
         IN  IF b = Null THEN RenderFrom(shelves, books, s, index + 1)
             ELSE IF ~ books[b].isShelved \/ books[b].shelf # s
             THEN RenderFrom([shelves EXCEPT ![s].books[index] = Null],
                             books, s, index + 1)
             ELSE RenderFrom(shelves,
                             [books EXCEPT ![b].x = SlotX(shelves[s], index),
                                           ![b].y = SlotY(shelves[s], index)],
                             s, index + 1)

\* a slip: a slot whose book went elsewhere is left as it is
renderBooks_NoCleanup(shelves, books, s) ==
    [shelf |-> shelves, book |-> RenderFrom(shelves, books, s, 0).book]

\* shelf s .render(ctx): the drawing apart, it is renderBooks
renderBooks(shelves, books, s) == RenderFrom(shelves, books, s, 0)

\* state.player.carriedBooks.some(book => book.color === this.color)
PlayerHasMatchingBook(sh, books, carried) ==
    \E k \in DOMAIN carried : books[carried[k]].color = sh.color

\* a slip: a full shelf keeps the glow it had
Shelf_update_KeepsGlow(sh, deltaTime, playerHasMatchingBook) ==
    LET glowSpeed == IF playerHasMatchingBook THEN 4 ELSE 2
        maxGlow   == IF playerHasMatchingBook THEN 10 ELSE 7
        minGlow   == IF playerHasMatchingBook THEN 5 ELSE 3
        g == sh.emptySlotGlow
               + sh.emptySlotGlowDirection * deltaTime * glowSpeed * (10 \div TimeScale)
    IN  IF hasEmptySlots(sh)
        THEN IF g >= maxGlow
             THEN [sh EXCEPT !.emptySlotGlow = maxGlow, !.emptySlotGlowDirection = -1]
             ELSE IF g <= minGlow
             THEN [sh EXCEPT !.emptySlotGlow = minGlow, !.emptySlotGlowDirection = 1]
             ELSE [sh EXCEPT !.emptySlotGlow = g]
        ELSE sh

\* Shelf.update(deltaTime); the glow is in tenths
Shelf_update(sh, deltaTime, playerHasMatchingBook) ==
    LET glowSpeed == IF playerHasMatchingBook THEN 4 ELSE 2
        maxGlow   == IF playerHasMatchingBook THEN 10 ELSE 7
        minGlow   == IF playerHasMatchingBook THEN 5 ELSE 3
        g == sh.emptySlotGlow
               + sh.emptySlotGlowDirection * deltaTime * glowSpeed * (10 \div TimeScale)
    IN  IF hasEmptySlots(sh)
        THEN IF g >= maxGlow
             THEN [sh EXCEPT !.emptySlotGlow = maxGlow, !.emptySlotGlowDirection = -1]
             ELSE IF g <= minGlow
             THEN [sh EXCEPT !.emptySlotGlow = minGlow, !.emptySlotGlowDirection = 1]
             ELSE [sh EXCEPT !.emptySlotGlow = g]
        ELSE [sh EXCEPT !.emptySlotGlow = 0]

\* ================================================================ actions

Player   == 1                                  \* the holder: the player
Holders  == {Player}

Returned(name, okv, bookv) == [op |-> name, ok |-> okv, book |-> bookv]

CallAddBook(s, b) ==
    LET r == addBook(shelf, book, s, b)
    IN  /\ shelf' = r.shelf
        /\ book' = r.book
        /\ call' = Returned("addBook", r.ret, Null)

CallRemoveBook(s, index) ==
    LET r == removeBook(shelf, book, s, index)
    IN  /\ shelf' = r.shelf
        /\ book' = r.book
        /\ call' = Returned("removeBook", FALSE, r.ret)

CallRemoveRandomBook(s, rnd) ==
    LET r == removeRandomBook(shelf, book, s, rnd)
    IN  /\ shelf' = r.shelf
        /\ book' = r.book
        /\ call' = Returned("removeRandomBook", FALSE, r.ret)

CallRender(s) ==
    LET r == renderBooks(shelf, book, s)
    IN  /\ shelf' = r.shelf
        /\ book' = r.book
        /\ call' = Returned("render", FALSE, Null)

CallPickup(b, h) ==
    /\ book' = [book EXCEPT ![b] = pickup(@, h)]
    /\ call' = Returned("pickup", FALSE, Null)
    /\ UNCHANGED shelf

CallDrop(b, x0, y0, throwVelocity, rnd) ==
    /\ book' = [book EXCEPT ![b] = drop(@, x0, y0, throwVelocity, rnd)]
    /\ call' = Returned("drop", FALSE, Null)
    /\ UNCHANGED shelf

CallShelve(b, s) ==
    /\ book' = [book EXCEPT ![b] = shelve(@, s)]
    /\ call' = Returned("shelve", FALSE, Null)
    /\ UNCHANGED shelf

CallUnshelve(b) ==
    /\ book' = [book EXCEPT ![b] = unshelve(@)]
    /\ call' = Returned("unshelve", FALSE, Null)
    /\ UNCHANGED shelf

CallUpdate(b, deltaTime, rx, ry) ==
    /\ book[b].isHeld \/ book[b].sparkleTimer + deltaTime <= MaxSparkle
    /\ book' = [book EXCEPT ![b] = update(@, deltaTime, shelf, rx, ry)]
    /\ call' = Returned("update", FALSE, Null)
    /\ UNCHANGED shelf

\* ------------------------------------------------------- the slot world
\* One shelf of Capacity slots and three books, two of the shelf's color and
\* one of another.  The calls are those of Shelf, and pickup and drop of Book.

\* the player's books and the script play no part in the first three worlds
Idle == UNCHANGED <<carriedBooks, trace>>
NoPlayer == carriedBooks = <<>> /\ trace = <<>>

BookColors == <<"red", "red", "blue">>
Spawn      == <<Px(-40), Px(0)>>        \* where books appear and are dropped
ThrowSlow  == <<20, 0>>

Init ==
    /\ book = [b \in DOMAIN BookColors |->
                 NewBook(Spawn[1], Spawn[2], BookColors[b])]
    /\ shelf = [s \in {1} |-> NewShelf(0, 0, "red", Capacity)]
    /\ call = Returned("new", FALSE, Null)
    /\ NoPlayer

ShelfCalls ==
    \/ \E s \in DOMAIN shelf, b \in DOMAIN book : CallAddBook(s, b) /\ Idle
    \/ \E s \in DOMAIN shelf : \E i \in -1 .. shelf[s].capacity :
         CallRemoveBook(s, i) /\ Idle
    \/ \E s \in DOMAIN shelf, r \in RandomSample : CallRemoveRandomBook(s, r) /\ Idle
    \/ \E s \in DOMAIN shelf : CallRender(s) /\ Idle

Next ==
    \/ ShelfCalls
    \/ \E b \in DOMAIN book, h \in Holders : CallPickup(b, h) /\ Idle
    \/ \E b \in DOMAIN book, t \in {NoThrow, ThrowSlow} :
         CallDrop(b, Spawn[1], Spawn[2], t, 0) /\ Idle

Spec == Init /\ [][Next]_vars

\* ------------------------------------------------------- the book world
\* One book and two shelves side by side, the second of another color.  Every
\* call of Book and of Shelf is made, frame updates included.  Books do not
\* read each other, so one book shows what Book.update does.

ShelfGap      == Px(8)
DropPositions ==
    { <<Px(-40), Px(0)>>,       \* clear of the shelves
      <<Px(-17), Px(0)>>,       \* one pixel left of shelf 1
      <<Px(8), Px(30)>> }       \* inside the box of shelf 1
Throws     == { NoThrow, <<12, 0>> }
DeltaTimes == { 1, 2 }

BookInit ==
    /\ book = [b \in {1} |-> NewBook(Spawn[1], Spawn[2], "red")]
    /\ shelf = [s \in {1, 2} |->
                  IF s = 1 THEN NewShelf(0, 0, "red", 2)
                  ELSE NewShelf(Px(ShelfWidth) + ShelfGap, 0, "blue", 1)]
    /\ call = Returned("new", FALSE, Null)
    /\ NoPlayer

BookCalls ==
    \/ \E b \in DOMAIN book, h \in Holders : CallPickup(b, h) /\ Idle
    \/ \E b \in DOMAIN book, p \in DropPositions, t \in Throws, r \in RandomSample :
         CallDrop(b, p[1], p[2], t, r) /\ Idle
    \/ \E b \in DOMAIN book, s \in DOMAIN shelf : CallShelve(b, s) /\ Idle
    \/ \E b \in DOMAIN book : CallUnshelve(b) /\ Idle
    \/ \E b \in DOMAIN book, dt \in DeltaTimes, rx \in RandomSample, ry \in RandomSample :
         CallUpdate(b, dt, rx, ry) /\ Idle

BookNext == ShelfCalls \/ BookCalls

BookSpec == BookInit /\ [][BookNext]_vars

\* ------------------------------------------------------ the update world
\* The book of the book world, dropped or thrown somewhere, off a shelf or
\* still marked as shelved, and from then on only updated, frame after frame;
\* a frame may take no time.  The throw draws Math.random() = 1/2, a throw
\* without spin: the rotation plays no part in what is checked here.

StartThrows == Throws \union { <<5, -6>>, <<-30, 12>> }
FrameTimes  == DeltaTimes \union {0}

UpdateInit ==
    /\ \E p \in DropPositions, t \in StartThrows, r \in {10}, sv \in BOOLEAN :
         book = [b \in {1} |->
                   drop(IF sv THEN shelve(NewBook(Spawn[1], Spawn[2], "red"), 1)
                        ELSE NewBook(Spawn[1], Spawn[2], "red"),
                        p[1], p[2], t, r)]
    /\ shelf = [s \in {1, 2} |->
                  IF s = 1 THEN NewShelf(0, 0, "red", 2)
                  ELSE NewShelf(Px(ShelfWidth) + ShelfGap, 0, "blue", 1)]
    /\ call = Returned("drop", FALSE, Null)
    /\ NoPlayer

UpdateCalls ==
    \E b \in DOMAIN book, dt \in FrameTimes, rx \in RandomSample, ry \in RandomSample :
      CallUpdate(b, dt, rx, ry) /\ Idle

\* the frame loop calls update on every book in every frame
UpdateSpec == UpdateInit /\ [][UpdateCalls]_vars /\ WF_vars(UpdateCalls)

\* ------------------------------------------------------ the script world
\* One empty shelf of Capacity slots, one book more of its color than it has
\* slots, and one book of another color.  The calls follow a script: the
\* shelf is filled with distinct books of its color, one more addBook is
\* tried, a slot is emptied with removeBook, a book of the other color is
\* offered and then a book of the shelf's color.  Every call is logged in
\* trace with its argument and what it returned.

ScriptColors ==
    [b \in 1 .. Capacity + 2 |-> IF b <= Capacity + 1 THEN "red" ELSE "blue"]

ScriptInit ==
    /\ book = [b \in DOMAIN ScriptColors |->
                 NewBook(Spawn[1], Spawn[2], ScriptColors[b])]
    /\ shelf = [s \in {1} |-> NewShelf(0, 0, "red", Capacity)]
    /\ call = Returned("new", FALSE, Null)
    /\ carriedBooks = <<>>
    /\ trace = <<>>

Logged(argument) ==
    /\ trace' = Append(trace, [op |-> call'.op, arg |-> argument,
                               ok |-> call'.ok, book |-> call'.book])
    /\ UNCHANGED carriedBooks

Added == {trace[k].arg : k \in {j \in DOMAIN trace : trace[j].op = "addBook"}}
OfColor(c) == {b \in DOMAIN book : book[b].color = c}

ScriptFill ==
    /\ Len(trace) < shelf[1].capacity
    /\ \E b \in OfColor(shelf[1].color) \ Added : CallAddBook(1, b) /\ Logged(b)

ScriptOverfill ==
    /\ Len(trace) = shelf[1].capacity
    /\ \E b \in DOMAIN book : CallAddBook(1, b) /\ Logged(b)

ScriptRemove ==
    /\ Len(trace) = shelf[1].capacity + 1
    /\ \E i \in 0 .. shelf[1].capacity - 1 : CallRemoveBook(1, i) /\ Logged(i)

ScriptOtherColor ==
    /\ Len(trace) = shelf[1].capacity + 2
    /\ \E b \in DOMAIN book \ OfColor(shelf[1].color) : CallAddBook(1, b) /\ Logged(b)

ScriptRefill ==
    /\ Len(trace) = shelf[1].capacity + 3
    /\ \E b \in OfColor(shelf[1].color) : CallAddBook(1, b) /\ Logged(b)

ScriptNext ==
    ScriptFill \/ ScriptOverfill \/ ScriptRemove \/ ScriptOtherColor \/ ScriptRefill

ScriptSpec == ScriptInit /\ [][ScriptNext]_vars

\* ------------------------------------------------------- the frame world
\* The book of the update world, free and thrown or dropped somewhere, and
\* then updated frame after frame without end at a steady rate.
\* sparkleTimer grows with every frame and Book.update never reads it: here
\* it is counted up to MaxSparkle and kept there, so that the frames go on.
\* The frame loop never stops calling update, and the jitter of a collision
\* is fair: when the book keeps colliding, every pair of draws of
\* Math.random() turns up again and again.

Clocked(bk) ==
    [bk EXCEPT !.sparkleTimer = IF @ > MaxSparkle THEN MaxSparkle ELSE @]

CallFrame(b, deltaTime, rx, ry) ==
    /\ book' = [book EXCEPT ![b] = Clocked(update(@, deltaTime, shelf, rx, ry))]
    /\ call' = Returned("update", FALSE, Null)
    /\ UNCHANGED shelf

\* the book dropped or thrown at one of positions, shelved or not
Thrown(positions, shelved) ==
    /\ \E p \in positions, t \in Throws, sv \in shelved :
         book = [b \in {1} |->
                   drop(IF sv THEN shelve(NewBook(Spawn[1], Spawn[2], "red"), 1)
                        ELSE NewBook(Spawn[1], Spawn[2], "red"),
                        p[1], p[2], t, 10)]
    /\ shelf = [s \in {1, 2} |->
                  IF s = 1 THEN NewShelf(0, 0, "red", 2)
                  ELSE NewShelf(Px(ShelfWidth) + ShelfGap, 0, "blue", 1)]
    /\ call = Returned("drop", FALSE, Null)
    /\ NoPlayer

SteadyTimes == {1}

FrameInit == Thrown(DropPositions, {FALSE})

\* a frame in which the move of book b is reverted by a shelf, with the
\* draws rx and ry
RevertedFrame(b, rx, ry) ==
    \E dt \in SteadyTimes :
      Collides(book[b], dt, shelf) /\ CallFrame(b, dt, rx, ry) /\ Idle

\* a frame in which the move of book b is kept
KeptFrame(b) ==
    \E dt \in SteadyTimes :
      ~ Collides(book[b], dt, shelf) /\ CallFrame(b, dt, 0, 0) /\ Idle

FrameCalls ==
    \/ \E b \in DOMAIN book : KeptFrame(b)
    \/ \E b \in DOMAIN book, rx \in RandomSample, ry \in RandomSample :
         RevertedFrame(b, rx, ry)

FrameSpec ==
    /\ FrameInit /\ [][FrameCalls]_vars
    /\ WF_vars(FrameCalls)
    /\ \A rx \in RandomSample, ry \in RandomSample :
         SF_vars(\E b \in DOMAIN book : RevertedFrame(b, rx, ry))

\* ------------------------------------------------------- the pulse world
\* The same book, shelved or not, thrown or dropped clear of the shelves and
\* updated frame after frame, with frames of every length, zero included.

PulseInit == Thrown({Spawn}, BOOLEAN)

PulseCalls ==
    \E b \in DOMAIN book, dt \in FrameTimes, rx \in RandomSample, ry \in RandomSample :
      CallFrame(b, dt, rx, ry) /\ Idle

PulseSpec == PulseInit /\ [][PulseCalls]_vars

\* -------------------------------------------------------- the glow world
\* One shelf of one slot, a book of its color and a book of another.  The
\* shelf is updated frame after frame, with frames of every length, zero
\* included; between the frames the book of its color is added and removed
\* and the player's carried books change in every way.

CallShelfUpdate(s, deltaTime) ==
    /\ shelf' = [shelf EXCEPT ![s] =
                   Shelf_update(@, deltaTime,
                                PlayerHasMatchingBook(@, book, carriedBooks))]
    /\ call' = Returned("Shelf.update", FALSE, Null)
    /\ UNCHANGED <<book, carriedBooks, trace>>

\* the player takes up or puts down books: carriedBooks becomes carried
Carry(carried) ==
    /\ carriedBooks # carried
    /\ carriedBooks' = carried
    /\ call' = Returned("carry", FALSE, Null)
    /\ UNCHANGED <<book, shelf, trace>>

GlowColors == <<"red", "blue">>
Carried    == { <<>>, <<1>>, <<2>>, <<2, 1>> }

GlowInit ==
    /\ book = [b \in DOMAIN GlowColors |->
                 NewBook(Spawn[1], Spawn[2], GlowColors[b])]
    /\ shelf = [s \in {1} |-> NewShelf(0, 0, "red", 1)]
    /\ call = Returned("new", FALSE, Null)
    /\ NoPlayer

GlowCalls ==
    \/ \E s \in DOMAIN shelf, dt \in FrameTimes : CallShelfUpdate(s, dt)
    \/ \E c \in Carried : Carry(c)
    \/ \E s \in DOMAIN shelf, b \in DOMAIN book : CallAddBook(s, b) /\ Idle
    \/ \E s \in DOMAIN shelf : \E i \in DOMAIN shelf[s].books :
         CallRemoveBook(s, i) /\ Idle

GlowSpec == GlowInit /\ [][GlowCalls]_vars

\* ================================================================ claims

Slots(s)       == shelf[s].books
Occupied(s)    == {i \in 0 .. shelf[s].capacity - 1 : Slots(s)[i] # Null}
Empties(s)     == {i \in 0 .. shelf[s].capacity - 1 : Slots(s)[i] = Null}
SameBookFields(b) ==
    /\ book'[b].isHeld = book[b].isHeld
    /\ book'[b].isShelved = book[b].isShelved
    /\ book'[b].holder = book[b].holder
    /\ book'[b].shelf = book[b].shelf
    /\ book'[b].vx = book[b].vx
    /\ book'[b].vy = book[b].vy

\* C1: addBook returns true exactly when the shelf has an empty slot and the
\* book is of the shelf's color; when it returns false no slot of the shelf
\* and none of isHeld, isShelved, holder, shelf, velocity of the book changes.
C1_AddBookReturns ==
    [][ \A s \in DOMAIN shelf, b \in DOMAIN book :
          CallAddBook(s, b) =>
            /\ call'.ok <=> (Empties(s) # {} /\ book[b].color = shelf[s].color)
            /\ ~ call'.ok => (shelf'[s].books = Slots(s) /\ SameBookFields(b)) ]_vars

\* a full shelf has refused a book while the book of another color, thrown
\* and picked up again since, is off the shelf
C1_Witness ==
    /\ call.op = "addBook" /\ ~ call.ok
    /\ Empties(1) = {}
    /\ book[3].isHeld /\ ~ book[3].isShelved /\ book[3].rotationSpeed = 0
    /\ \E b \in DOMAIN book : book[b].vx # 0

\* C2: a successful addBook changes exactly one slot, the lowest-index empty
\* one, which now holds the book; the book is shelved on this shelf, not held,
\* without holder and at rest.
C2_AddBookPlaces ==
    [][ \A s \in DOMAIN shelf, b \in DOMAIN book :
          (CallAddBook(s, b) /\ call'.ok) =>
            /\ Empties(s) # {}
            /\ LET low == CHOOSE i \in Empties(s) : \A j \in Empties(s) : i <= j
               IN  shelf'[s].books = [Slots(s) EXCEPT ![low] = b]
            /\ book'[b].isShelved /\ book'[b].shelf = s
            /\ ~ book'[b].isHeld /\ book'[b].holder = Null
            /\ book'[b].vx = 0 /\ book'[b].vy = 0 ]_vars

\* addBook has filled slot 0 below an occupied slot 1: book 1 has been drawn
\* in slot 1, book 2 has come from where it was dropped
C2_Witness ==
    /\ call.op = "addBook" /\ call.ok
    /\ Slots(1)[0] = 2 /\ Slots(1)[1] = 1
    /\ book[1].x = SlotX(shelf[1], 1) /\ book[1].y = SlotY(shelf[1], 1)
    /\ book[2].x = Spawn[1] /\ book[2].isShelved /\ book[1].isShelved

\* C3: removeBook(i) on an occupied slot returns the book of slot i, empties
\* slot i alone, and the book is no longer shelved and has no shelf; on an
\* empty slot or an index outside 0 .. capacity-1 it returns null and no
\* slot changes.
C3_RemoveBook ==
    [][ \A s \in DOMAIN shelf : \A i \in -1 .. shelf[s].capacity :
          CallRemoveBook(s, i) =>
            IF i \in Occupied(s)
            THEN /\ call'.book = Slots(s)[i]
                 /\ shelf'[s].books = [Slots(s) EXCEPT ![i] = Null]
                 /\ ~ book'[Slots(s)[i]].isShelved
                 /\ book'[Slots(s)[i]].shelf = Null
            ELSE /\ call'.book = Null
                 /\ shelf'[s].books = Slots(s) ]_vars

\* removeBook has taken book 1 out of slot 0 and left book 2 in slot 1
C3_Witness ==
    /\ call.op = "removeBook" /\ call.book = 1
    /\ Slots(1)[0] = Null /\ Slots(1)[1] = 2
    /\ ~ book[1].isShelved /\ book[2].isShelved

\* C4: removeRandomBook returns null and changes nothing on a shelf without
\* books; on a shelf with k >= 1 books, whatever the random choice, it returns
\* the book of an occupied slot, empties that slot alone, and k - 1 are left.
C4_RemoveRandomBook ==
    [][ \A s \in DOMAIN shelf, r \in RandomSample :
          CallRemoveRandomBook(s, r) =>
            IF Occupied(s) = {}
            THEN call'.book = Null /\ shelf' = shelf /\ book' = book
            ELSE /\ \E i \in Occupied(s) :
                      /\ call'.book = Slots(s)[i]
                      /\ shelf'[s].books = [Slots(s) EXCEPT ![i] = Null]
                 /\ Cardinality(Occupied(s)') = Cardinality(Occupied(s)) - 1 ]_vars

\* removeRandomBook has taken a book from slot 1 and left slot 0 occupied
C4_Witness ==
    /\ call.op = "removeRandomBook" /\ call.book # Null
    /\ Slots(1)[0] # Null /\ Slots(1)[1] = Null
    /\ Slots(1)[0] # call.book

\* C5: the occupied slots plus getEmptySlotCount() make the capacity, the
\* occupied count is within 0 .. capacity, and hasEmptySlots() is true
\* exactly when getEmptySlotCount() > 0.
C5_SlotCounts ==
    \A s \in DOMAIN shelf :
      /\ Cardinality(Occupied(s)) + getEmptySlotCount(shelf[s]) = shelf[s].capacity
      /\ Cardinality(Occupied(s)) \in 0 .. shelf[s].capacity
      /\ hasEmptySlots(shelf[s]) <=> getEmptySlotCount(shelf[s]) > 0

\* a full shelf has been drawn
C5_Witness ==
    /\ call.op = "render"
    /\ Cardinality(Occupied(1)) = shelf[1].capacity
    /\ getEmptySlotCount(shelf[1]) = 0

Free(b) == ~ book[b].isHeld /\ ~ book[b].isShelved

\* C6: a book is never both held and shelved.
C6_NeverHeldAndShelved ==
    \A b \in DOMAIN book : ~ (book[b].isHeld /\ book[b].isShelved)

\* C7: with holders and shelves that are not null, a book has a holder
\* exactly when it is held and a shelf exactly when it is shelved.
C7_BackReferences ==
    \A b \in DOMAIN book :
      /\ book[b].holder # Null <=> book[b].isHeld
      /\ book[b].shelf # Null <=> book[b].isShelved

\* a book shelved on shelf 2 by Book.shelve has been picked up
C7_Witness ==
    /\ call.op = "pickup"
    /\ book[1].isHeld /\ book[1].holder = Player
    /\ book[1].isShelved /\ book[1].shelf = 2

\* C8: Book.update on a held book changes none of its fields, whatever the
\* deltaTime and the shelves.
C8_HeldUpdateNoOp ==
    [][ \A b \in DOMAIN book, dt \in DeltaTimes, rx \in RandomSample, ry \in RandomSample :
          (book[b].isHeld /\ CallUpdate(b, dt, rx, ry)) => book'[b] = book[b] ]_vars

\* a held book lying in the box of shelf 1, its timer already run, was updated
C8_Witness ==
    /\ call.op = "update"
    /\ book[1].isHeld /\ ~ book[1].isShelved
    /\ Overlaps(book[1].x, book[1].y, shelf[1])
    /\ book[1].sparkleTimer > 0

\* C9: when the tentative move of a free book overlaps a shelf, the update
\* leaves the book where it was, and after every update the free book
\* overlaps no shelf.
C9_NeverOverlapsAfterUpdate ==
    [][ \A b \in DOMAIN book, dt \in DeltaTimes, rx \in RandomSample, ry \in RandomSample :
          (Free(b) /\ CallUpdate(b, dt, rx, ry)) =>
            /\ Collides(book[b], dt, shelf) =>
                 (book'[b].x = book[b].x /\ book'[b].y = book[b].y)
            /\ \A s \in DOMAIN shelf : ~ Overlaps(book'[b].x, book'[b].y, shelf'[s]) ]_vars

AtRest(b) == book[b].vx = 0 /\ book[b].vy = 0

Slower(b) ==
    /\ Abs(book'[b].vx) <= Abs(book[b].vx)
    /\ Abs(book'[b].vy) <= Abs(book[b].vy)

\* an update of a book that is not held in which the tentative move hits a shelf
CollidingUpdate ==
    \E b \in DOMAIN book, dt \in FrameTimes, rx \in RandomSample, ry \in RandomSample :
      /\ ~ book[b].isHeld
      /\ Collides(book[b], dt, shelf)
      /\ CallUpdate(b, dt, rx, ry)

\* C10 as stated: under updates alone no velocity component of a book that is
\* not held ever grows in magnitude, and the velocity is in the end (0,0) for
\* good.
C10_AlwaysDecays ==
    /\ [][ \A b \in DOMAIN book, dt \in FrameTimes, rx \in RandomSample, ry \in RandomSample :
             (~ book[b].isHeld /\ CallUpdate(b, dt, rx, ry)) => Slower(b) ]_vars
    /\ <>[](\A b \in DOMAIN book : AtRest(b))

\* C10 amended: no velocity component grows in magnitude in an update whose
\* tentative move hits no shelf, and once the updates stop hitting shelves
\* the velocity is in the end (0,0) for good.
C10_DecaysUnlessCollides ==
    /\ [][ \A b \in DOMAIN book, dt \in FrameTimes, rx \in RandomSample, ry \in RandomSample :
             (/\ ~ book[b].isHeld
              /\ ~ Collides(book[b], dt, shelf)
              /\ CallUpdate(b, dt, rx, ry)) => Slower(b) ]_vars
    /\ <>[][~ CollidingUpdate]_vars => <>[](\A b \in DOMAIN book : AtRest(b))

\* a thrown book has moved clear of where it was dropped and come to rest
\* off the shelves
C10_Witness ==
    /\ call.op = "update"
    /\ AtRest(1) /\ ~ book[1].isHeld /\ ~ book[1].isShelved
    /\ \A p \in DropPositions : book[1].x # p[1]
    /\ \A s \in DOMAIN shelf : ~ Overlaps(book[1].x, book[1].y, shelf[s])


\* C11: on an empty shelf of capacity N and color c, the N addBook calls
\* with distinct books of color c all return true and leave no empty slot;
\* one more addBook returns false; removeBook(i) then returns the (i+1)-th
\* book added and leaves exactly one empty slot; addBook of a book of
\* another color then returns false, and addBook of a book of color c
\* returns true, puts it in slot i and leaves no empty slot.
C11_Script ==
    LET N == shelf[1].capacity
        n == Len(trace)
    IN  /\ \A k \in 1 .. n : k <= N => trace[k].ok
        /\ n = N => ~ hasEmptySlots(shelf[1])
        /\ n >= N + 1 => ~ trace[N + 1].ok
        /\ n >= N + 2 => trace[N + 2].book = trace[trace[N + 2].arg + 1].arg
        /\ n = N + 2 => getEmptySlotCount(shelf[1]) = 1
        /\ n >= N + 3 => ~ trace[N + 3].ok
        /\ n = N + 4 => /\ trace[N + 4].ok
                        /\ Slots(1)[trace[N + 2].arg] = trace[N + 4].arg
                        /\ ~ hasEmptySlots(shelf[1])

C11_Witness ==
    LET N == shelf[1].capacity
    IN  /\ Len(trace) = N + 4
        /\ trace[N + 2].arg = N - 1
        /\ trace[N + 2].book # Null
        /\ trace[N + 4].ok
        /\ trace[N + 4].arg \notin {trace[k].arg : k \in 1 .. N}

\* the test of renderBooks on slot i of shelf s
SlotIsSound(s, i) ==
    /\ Slots(s)[i] # Null
    /\ book[Slots(s)[i]].isShelved
    /\ book[Slots(s)[i]].shelf = s

\* C12: right after renderBooks, every non-empty slot of the shelf holds a
\* book that is shelved on this shelf: a slot whose book is not shelved, or
\* is shelved elsewhere, is emptied by the pass, and every other slot keeps
\* the book it had.
C12_RenderCleansSlots ==
    [][\A s \in DOMAIN shelf : CallRender(s) =>
         \A i \in DOMAIN Slots(s) :
            /\ shelf'[s].books[i] = IF SlotIsSound(s, i) THEN Slots(s)[i] ELSE Null
            /\ shelf'[s].books[i] # Null =>
                 /\ book'[shelf'[s].books[i]].isShelved
                 /\ book'[shelf'[s].books[i]].shelf = s]_vars

\* a render found the book of slot 1 no longer shelved and emptied the slot,
\* and kept the sound slot 0
C12_Witness ==
    /\ call.op = "render"
    /\ Slots(1)[0] = 2 /\ SlotIsSound(1, 0)
    /\ book[2].x = SlotX(shelf[1], 0)
    /\ Slots(1)[1] = Null
    /\ ~ book[1].isShelved
    /\ book[1].x = SlotX(shelf[1], 1) /\ book[1].y = SlotY(shelf[1], 1)

\* the slots, over all the shelves, that hold book b
SlotsOf(b) ==
    {p \in (DOMAIN shelf) \X (0 .. Capacity) :
        p[2] \in DOMAIN Slots(p[1]) /\ Slots(p[1])[p[2]] = b}

\* C13: after any sequence of addBook, removeBook and removeRandomBook, a
\* book already shelved being added again included, each book is referenced
\* by at most one slot over all the shelves, and the book of every occupied
\* slot is shelved on the shelf that owns the slot.
C13_OneSlotPerBook ==
    /\ \A b \in DOMAIN book : Cardinality(SlotsOf(b)) <= 1
    /\ \A s \in DOMAIN shelf : \A i \in Occupied(s) : SlotIsSound(s, i)

\* C14: after Book.update on a book that is not held, every velocity
\* component whose magnitude is below 5 is exactly zero, each component on
\* its own.
C14_EachComponentStops ==
    \A b \in DOMAIN book :
       (call.op = "update" /\ ~ book[b].isHeld) =>
          /\ Abs(book[b].vx) < StopSpeed => book[b].vx = 0
          /\ Abs(book[b].vy) < StopSpeed => book[b].vy = 0

\* C14, amended: after Book.update on a book that is not held, the two
\* velocity components are never both below 5 in magnitude unless both are
\* exactly zero.
C14_StopsWhenBothSlow ==
    \A b \in DOMAIN book :
       (/\ call.op = "update" /\ ~ book[b].isHeld
        /\ Abs(book[b].vx) < StopSpeed /\ Abs(book[b].vy) < StopSpeed) => AtRest(b)

\* a book thrown up and sideways has come to rest after moving on both axes
C14_Witness ==
    /\ call.op = "update"
    /\ ~ book[1].isHeld
    /\ AtRest(1)
    /\ \A p \in DropPositions : book[1].x # p[1] /\ book[1].y # p[2]

\* C16: Book.unshelve changes isShelved (to false) and shelf (to null) and
\* nothing else, so Shelf.removeBook on a slot whose book is held leaves the
\* book held by the same holder.
C16_UnshelveFrame ==
    [][\A b \in DOMAIN book :
         /\ CallUnshelve(b) =>
              book'[b] = [book[b] EXCEPT !.isShelved = FALSE, !.shelf = Null]
         /\ \A s \in DOMAIN shelf : \A i \in Occupied(s) :
              (CallRemoveBook(s, i) /\ Slots(s)[i] = b) =>
                 /\ book'[b] = [book[b] EXCEPT !.isShelved = FALSE, !.shelf = Null]
                 /\ book[b].isHeld =>
                      book'[b].isHeld /\ book'[b].holder = book[b].holder]_vars

\* removeBook has just handed back a book that the player holds
C16_Witness ==
    /\ call.op = "removeBook"
    /\ call.book = 1
    /\ book[1].isHeld /\ book[1].holder = Player
    /\ ~ book[1].isShelved /\ book[1].shelf = Null

\* C17: after Book.drop(x, y, throwVelocity) the book is not held, has no
\* holder and is at (x, y); with a throw velocity its velocity is that
\* velocity and rotationSpeed lies in [-5, 5], without one velocity and
\* rotationSpeed are unchanged; isShelved and shelf are unchanged either way.
C17_Drop ==
    [][\A b \in DOMAIN book, p \in DropPositions, t \in Throws, r \in RandomSample :
         CallDrop(b, p[1], p[2], t, r) =>
            /\ ~ book'[b].isHeld /\ book'[b].holder = Null
            /\ book'[b].x = p[1] /\ book'[b].y = p[2]
            /\ t # NoThrow =>
                 /\ book'[b].vx = t[1] /\ book'[b].vy = t[2]
                 /\ book'[b].rotationSpeed \in -5 .. 5
            /\ t = NoThrow =>
                 /\ book'[b].vx = book[b].vx /\ book'[b].vy = book[b].vy
                 /\ book'[b].rotationSpeed = book[b].rotationSpeed
            /\ book'[b].isShelved = book[b].isShelved
            /\ book'[b].shelf = book[b].shelf]_vars

\* a shelved book has just been thrown, with spin, into the box of shelf 1
C17_Witness ==
    /\ call.op = "drop"
    /\ ~ book[1].isHeld /\ book[1].holder = Null
    /\ book[1].isShelved /\ book[1].shelf = 1
    /\ book[1].x = Px(8) /\ book[1].y = Px(30)
    /\ book[1].vx = 12 /\ book[1].rotationSpeed = -5

\* C18: after every Book.update on a book that is not held, with a
\* deltaTime of zero or more, glowIntensity lies in [0.3, 1.0] and
\* glowDirection is +1 or -1; glowDirection changes sign only in an update
\* that ends with glowIntensity at a bound, to -1 at 1.0 and to +1 at 0.3.
C18_GlowPulse ==
    [][\A b \in DOMAIN book, dt \in FrameTimes, rx \in RandomSample, ry \in RandomSample :
         (CallFrame(b, dt, rx, ry) /\ ~ book[b].isHeld) =>
            /\ book'[b].glowIntensity \in 3 .. 10
            /\ book'[b].glowDirection \in {-1, 1}
            /\ book'[b].glowDirection # book[b].glowDirection =>
                 \/ book'[b].glowDirection = -1 /\ book'[b].glowIntensity = 10
                 \/ book'[b].glowDirection = 1 /\ book'[b].glowIntensity = 3]_vars

\* the glow has been to 1.0, has turned there and is on its way down
C18_Witness ==
    /\ call.op = "update"
    /\ ~ book[1].isHeld
    /\ book[1].glowDirection = -1
    /\ book[1].glowIntensity \in 4 .. 9

\* a frame of the frame world that ends a blockage: the book is somewhere
\* else after it, and there it overlaps no shelf
CompletedMove ==
    \E b \in DOMAIN book :
      /\ KeptFrame(b)
      /\ book'[b].x # book[b].x \/ book'[b].y # book[b].y
      /\ \A s \in DOMAIN shelf : ~ Overlaps(book'[b].x, book'[b].y, shelf[s])

AnyRevertedFrame ==
    \E b \in DOMAIN book, rx \in RandomSample, ry \in RandomSample :
      RevertedFrame(b, rx, ry)

\* C15: a free book whose move is reverted by a shelf is not blocked in
\* place forever: with updates repeated and the jitter fair, a book whose
\* moves keep being reverted completes a move again and again, ending at
\* another position where it overlaps no shelf, wherever it started.
C15_NotBlockedForever ==
    []<><<AnyRevertedFrame>>_vars => []<><<CompletedMove>>_vars

\* C19: after every Shelf.update, emptySlotGlow is exactly 0 when the shelf
\* has no empty slot; when it has one, emptySlotGlow lies in [0.5, 1] if the
\* player carries a book of the shelf's color and in [0.3, 0.7] otherwise,
\* also in the update right after the carried books changed or the shelf
\* stopped being full.
C19_EmptySlotGlow ==
    [][\A s \in DOMAIN shelf, dt \in FrameTimes :
         CallShelfUpdate(s, dt) =>
            shelf'[s].emptySlotGlow \in
               IF ~ hasEmptySlots(shelf'[s]) THEN {0}
               ELSE IF PlayerHasMatchingBook(shelf'[s], book', carriedBooks')
                    THEN 5 .. 10
                    ELSE 3 .. 7]_vars

\* the glow had risen to 1.0 for a player with a matching book; the update
\* after the player put that book down brought it into [0.3, 0.7]
C19_Witness ==
    /\ call.op = "Shelf.update"
    /\ hasEmptySlots(shelf[1])
    /\ ~ PlayerHasMatchingBook(shelf[1], book, carriedBooks)
    /\ shelf[1].emptySlotGlow = 6
    /\ shelf[1].emptySlotGlowDirection = -1

====
